---- MODULE Spec2Model ----
(***************************************************************************)
(* The ReAct tool-calling loop of notebooks/2_math-agent.ipynb: the graph  *)
(* START -> llm -> (tools_condition) -> tools -> llm ... -> END over the   *)
(* ReActState message log, with the math tools add, multiply and divide.   *)
(* The model endpoint is not controlled by the program: every answer it    *)
(* can give (a plain answer, or up to MaxCalls tool-call requests) is an   *)
(* input of llm_node.                                                      *)
(***************************************************************************)
EXTENDS Integers, Sequences, FiniteSets, TLC

(***************************************************************************)
(* Bounds of the model.                                                    *)
(***************************************************************************)
\* step_budget: the configured ceiling on executed graph steps.  The
\* conversation agent configures 25; the model checks a small ceiling.
StepBudget == 4
\* most tool-call requests in one assistant message
MaxCalls == 2
\* most messages the caller supplies to one run
MaxInit == 2
\* pages of the ingested document, one chunk each
MaxPage == 4
\* most attempts of one tool call the model follows
MaxAttempts == 2

VARIABLES
    messages,   \* ReActState["messages"]: the Conversation State
    node,       \* the Loop Driver's position in the graph
    route,      \* what tools_condition last returned ("none" before)
    step,       \* graph steps (node executions) completed in this run
    cycles,     \* completed INVOKE_MODEL -> DISPATCH_TOOLS cycles
    error,      \* the exception that ended the run ("none" if none)
    nextId,     \* next call identifier the model endpoint issues
    initial,    \* the messages the caller passed to invoke()
    budget,     \* the step ceiling this run is configured with
    attached,   \* the Conversation State carried by StepBudgetExceededError
    rag,        \* the retrieval tool: vector store, query, search result, output
    trace,      \* what the run has asked of its collaborators so far
    config,     \* the options the agent was constructed with
    runs,       \* the runs of the conversation agent, by thread identifier
    checkpoints, \* the persisted Conversation States, by thread identifier
    workflow,   \* the multi-agent legal workflow
    loader      \* the document loading cell: directory listing and pages

\* the variables of the components around the notebook's graph
side_vars == <<config, runs, checkpoints, workflow, loader>>

vars == <<messages, node, route, step, cycles, error, nextId, initial,
          budget, attached, rag, trace, side_vars>>

(***************************************************************************)
(* Values and messages.                                                    *)
(***************************************************************************)
RECURSIVE Gcd(_, _)
Gcd(x, y) == IF y = 0 THEN x ELSE Gcd(y, x % y)

Abs(x) == IF x < 0 THEN -x ELSE x

\* a Python int
IntValue(n) == [kind |-> "int", num |-> n, den |-> 1]

\* the Python float n / d (d # 0), as the reduced fraction it stands for
FloatValue(n, d) ==
    LET g == Gcd(Abs(n), Abs(d))
        s == IF d < 0 THEN -1 ELSE 1
    IN  [kind |-> "float", num |-> (s * n) \div g, den |-> (s * d) \div g]

NoValue == [kind |-> "none", num |-> 0, den |-> 1]

HumanMessage(c) ==
    [type |-> "human", content |-> c, tool_calls |-> <<>>,
     name |-> "", tool_call_id |-> 0, artifact |-> NoValue]

AIMessage(c, calls) ==
    [type |-> "ai", content |-> c, tool_calls |-> calls,
     name |-> "", tool_call_id |-> 0, artifact |-> NoValue]

ToolMessage(c, n, id, art) ==
    [type |-> "tool", content |-> c, tool_calls |-> <<>>,
     name |-> n, tool_call_id |-> id, artifact |-> art]

sys_msg ==
    [type |-> "system",
     content |-> "You are a helpful assistant tasked with performing arithmetic on a set of inputs.",
     tool_calls |-> <<>>, name |-> "", tool_call_id |-> 0, artifact |-> NoValue]

Last(s) == s[Len(s)]

IsPrefix(s, t) == Len(s) <= Len(t) /\ SubSeq(t, 1, Len(s)) = s

\* mutant: the messages channel without its reducer, each write overwrites
add_messages_overwrite(left, right) == right

\* the add_messages reducer of ReActState: a node's messages are appended
add_messages(left, right) == left \o right

(***************************************************************************)
(* The math tools.  A tool returns ok with (content, artifact), or the     *)
(* exception it raises.  The content is the f-string, token by token.      *)
(***************************************************************************)
Returned(c, art) == [ok |-> TRUE, content |-> c, artifact |-> art, error |-> "none"]
Raised(e) == [ok |-> FALSE, content |-> <<>>, artifact |-> NoValue, error |-> e]

\* mutant: the message is formatted with the wrong operand
add_misformatted(a, b) ==
    LET result == a + b
    IN  Returned(<<"Adding", a, "and", a, "gives", IntValue(result)>>, IntValue(result))

\* mutant: the tool adds where it should multiply
multiply_added(a, b) ==
    LET result == a + b
    IN  Returned(<<"Multiplying", a, "and", b, "gives", IntValue(result)>>, IntValue(result))

add(a, b) ==
    LET result == a + b
    IN  Returned(<<"Adding", a, "and", b, "gives", IntValue(result)>>, IntValue(result))

multiply(a, b) ==
    LET result == a * b
    IN  Returned(<<"Multiplying", a, "and", b, "gives", IntValue(result)>>, IntValue(result))

\* mutant: the quotient is the integer division
divide_floor(a, b) ==
    IF b = 0
    THEN Raised("ValueError")
    ELSE LET result == IntValue(a \div b)
         IN  Returned(<<"Dividing", a, "by", b, "gives", result>>, result)

\* mutant: the divisor is not checked before dividing
divide_unguarded(a, b) ==
    LET result == FloatValue(a, b)
    IN  Returned(<<"Dividing", a, "by", b, "gives", result>>, result)

divide(a, b) ==
    IF b = 0
    THEN Raised("ValueError")
    ELSE LET result == FloatValue(a, b)
         IN  Returned(<<"Dividing", a, "by", b, "gives", result>>, result)

tools == <<"add", "multiply", "divide">>

\* tools_by_name = {tool.name: tool for tool in tools}
tools_by_name == {tools[i] : i \in 1..Len(tools)}

\* tool.invoke(args): the arguments are checked against the tool's schema
\* (a: int, b: int), then the tool body runs
tool_invoke(name, args) ==
    IF DOMAIN args # {"a", "b"}
    THEN Raised("ValidationError")
    ELSE CASE name = "add" -> add(args.a, args.b)
           [] name = "multiply" -> multiply(args.a, args.b)
           [] OTHER -> divide(args.a, args.b)

\* mutant: an unknown tool name is answered with an error text for the model
call_tool_lenient(tool_call) ==
    IF tool_call.name \notin tools_by_name
    THEN Returned(<<"Error:", tool_call.name, "is not a valid tool">>, NoValue)
    ELSE tool_invoke(tool_call.name, tool_call.args)

\* mutant: an exception raised by a tool body is turned into the observation
call_tool_handled(tool_call) ==
    IF tool_call.name \notin tools_by_name
    THEN Raised("KeyError")
    ELSE LET r == tool_invoke(tool_call.name, tool_call.args)
         IN  IF r.error = "ValueError"
             THEN Returned(<<"Error:", "Cannot divide by zero">>, NoValue)
             ELSE r

\* one iteration of tool_node's loop: look the tool up, invoke it
call_tool(tool_call) ==
    IF tool_call.name \notin tools_by_name
    THEN Raised("KeyError")
    ELSE tool_invoke(tool_call.name, tool_call.args)

\* mutant: the loop runs through the requested calls backwards
call_order_reversed(n) == [i \in 1..n |-> n + 1 - i]

\* mutant: the loop stops one call short
call_order_short(n) == [i \in 1..(n - 1) |-> i]

\* the order in which tool_node runs through the requested calls
call_order(n) == [i \in 1..n |-> i]

\* mutant: the result is built without the identifier of its call
result_id_unset(tool_call) == 0

\* the call identifier tool_node puts on the result of tool_call
result_id(tool_call) == tool_call.id

\* tool_node(state): runs the calls of the last message in order; the
\* first exception leaves the node, and no result is returned
RECURSIVE run_calls(_, _, _)
run_calls(calls, order, result) ==
    IF order = <<>>
    THEN [ok |-> TRUE, messages |-> result, error |-> "none"]
    ELSE LET tool_call == calls[Head(order)]
             observation == call_tool(tool_call)
         IN  IF ~observation.ok
             THEN [ok |-> FALSE, messages |-> <<>>, error |-> observation.error]
             ELSE run_calls(calls, Tail(order),
                     Append(result,
                         ToolMessage(observation.content, tool_call.name,
                                     result_id(tool_call), observation.artifact)))

\* mutant: the calls are taken from the first answer of the log
tool_node_first_answer(msgs) ==
    LET first == CHOOSE i \in 1..Len(msgs) :
                    /\ msgs[i].type = "ai"
                    /\ \A j \in 1..(i - 1) : msgs[j].type # "ai"
        calls == msgs[first].tool_calls
    IN  run_calls(calls, call_order(Len(calls)), <<>>)

tool_node(msgs) ==
    LET calls == Last(msgs).tool_calls
    IN  run_calls(calls, call_order(Len(calls)), <<>>)

\* the identifiers of the calls the loop of tool_node gets to, in order: all
\* of them, or those up to the one that raises
RECURSIVE invoked_calls(_, _)
invoked_calls(calls, order) ==
    IF order = <<>>
    THEN <<>>
    ELSE LET tool_call == calls[Head(order)]
         IN  IF ~call_tool(tool_call).ok
             THEN <<tool_call.id>>
             ELSE <<tool_call.id>> \o invoked_calls(calls, Tail(order))

\* mutant: the two branches of the router swapped
tools_condition_inverted(msgs) ==
    IF msgs # <<>> /\ Last(msgs).type = "ai" /\ Len(Last(msgs).tool_calls) > 0
    THEN "__end__"
    ELSE "tools"

\* mutant: the router does not look at the tool-call list
tools_condition_any_ai(msgs) ==
    IF msgs # <<>> /\ Last(msgs).type = "ai"
    THEN "tools"
    ELSE "__end__"

\* mutant: the edge goes to the tools node whatever the model answered
tools_condition_always(msgs) == "tools"

\* tools_condition(state): "tools" if the latest message is an assistant
\* message that requests tool calls, END otherwise
tools_condition(msgs) ==
    IF msgs # <<>> /\ Last(msgs).type = "ai" /\ Len(Last(msgs).tool_calls) > 0
    THEN "tools"
    ELSE "__end__"

\* mutant: a second edge leaves the tools node, so two nodes are scheduled
edges_fanout(n, msgs) ==
    CASE n = "__start__" -> {"llm"}
      [] n = "llm" -> {tools_condition(msgs)}
      [] n = "tools" -> {"llm", "tools"}
      [] OTHER -> {}

\* the edges of react_builder: the nodes scheduled after node n has run
edges(n, msgs) ==
    CASE n = "__start__" -> {"llm"}
      [] n = "llm" -> {tools_condition(msgs)}
      [] n = "tools" -> {"llm"}
      [] OTHER -> {}

(***************************************************************************)
(* The step budget.                                                        *)
(***************************************************************************)

\* mutant: no ceiling, the next node is always entered
enter_unbounded(n, s) == n

\* the node the driver enters next after s completed steps
enter(n, s) == IF s < budget THEN n ELSE "error"

enter_error(s) == IF s < budget THEN "none" ELSE "StepBudgetExceededError"

\* mutant: the error carries the state as it was before the failing step
attach_stale(e, before, after) ==
    IF e = "StepBudgetExceededError" THEN before ELSE <<>>

\* the partial Conversation State the budget error carries: the log as the
\* failing step left it
attach(e, before, after) ==
    IF e = "StepBudgetExceededError" THEN after ELSE <<>>

\* mutant: the failed node is run once more
on_exception_reissue(n) == n

\* mutant: the exception is swallowed and the node is scheduled again
on_exception_retry(n) == n

\* an exception raised inside a node ends the run
on_exception(n) == "error"

(***************************************************************************)
(* What the model endpoint can answer.                                     *)
(***************************************************************************)
HumanContents == {"Add 11 and 53. Multiply the output by 2. Then divide it by 16"}

AnswerContents == {"The final result is 8.", ""}

\* two requests that succeed, and one for each way a request can fail
ToolCallChoices ==
    { [name |-> "add", args |-> [a |-> 11, b |-> 53]],
      [name |-> "divide", args |-> [a |-> 128, b |-> 16]],
      [name |-> "divide", args |-> [a |-> 128, b |-> 0]],
      [name |-> "add", args |-> [a |-> 11]],
      [name |-> "subtract", args |-> [a |-> 11, b |-> 53]] }

SeqsUpTo(S, lo, hi) == UNION {[1..n -> S] : n \in lo..hi}

\* the requests of one assistant message, with the identifiers issued
WithIds(reqs, first) ==
    [i \in 1..Len(reqs) |->
        [name |-> reqs[i].name, args |-> reqs[i].args,
         id |-> first + i - 1, type |-> "tool_call"]]

\* nothing has been asked of the model endpoint or of a tool yet
NoTrace == [invoked |-> 0, prompt |-> <<>>, executed |-> <<>>]

\* the components around the graph, not in use
NoConfig == [use_memory |-> FALSE, parallel_tool_calls |-> FALSE]

NoWorkflow == [stage |-> "none"]

NoLoader == [file_names |-> <<>>, i |-> 0, docs_pages |-> <<>>, error |-> "none"]

SideIdle ==
    /\ config = NoConfig
    /\ runs = <<>>
    /\ checkpoints = <<>>
    /\ workflow = NoWorkflow
    /\ loader = NoLoader

\* the retrieval tool is not part of this graph
NoRag == [store |-> {}, query |-> "", found |-> <<>>, called |-> FALSE,
          content |-> <<>>, artifact |-> <<>>]

(***************************************************************************)
(* The run: react_graph.invoke(input={"messages": messages}).              *)
(***************************************************************************)
Init ==
    /\ initial \in {[i \in 1..Len(s) |-> HumanMessage(s[i])] :
                        s \in SeqsUpTo(HumanContents, 1, MaxInit)}
    /\ messages = initial
    /\ node \in edges("__start__", initial)
    /\ route = "none"
    /\ step = 0
    /\ cycles = 0
    /\ error = "none"
    /\ nextId = 1
    /\ budget = StepBudget
    /\ attached = <<>>
    /\ rag = NoRag
    /\ trace = NoTrace
    /\ SideIdle

\* mutant: the whole message object, artifact included, is sent to the model
shown_to_model_with_artifact(prompt) ==
    [i \in 1..Len(prompt) |->
        [type |-> prompt[i].type, content |-> prompt[i].content,
         tool_calls |-> prompt[i].tool_calls,
         tool_call_id |-> prompt[i].tool_call_id,
         artifact |-> prompt[i].artifact]]

\* what the model endpoint is sent of its input: of each message the role,
\* the content, the requested calls and the call answered; the artifact is
\* the part of a tool's output kept outside the model
shown_to_model(prompt) ==
    [i \in 1..Len(prompt) |->
        [type |-> prompt[i].type, content |-> prompt[i].content,
         tool_calls |-> prompt[i].tool_calls,
         tool_call_id |-> prompt[i].tool_call_id]]

\* mutant: the model is given the latest message only
model_input_latest(msgs) == <<sys_msg, Last(msgs)>>

\* the argument of llm_with_tools.invoke: [sys_msg] + state["messages"]
model_input(msgs) == <<sys_msg>> \o msgs

\* mutant: the node returns the prompt's system message with the answer
llm_node_with_sys(answer) == add_messages(messages, <<sys_msg, answer>>)

\* llm_node: one model invocation over [sys_msg] + state["messages"]; its
\* answer is appended
llm_node(answer) == add_messages(messages, <<answer>>)

LLMNode ==
    /\ node = "llm"
    /\ \E reqs \in SeqsUpTo(ToolCallChoices, 0, MaxCalls) :
       \E c \in (IF reqs = <<>> THEN AnswerContents ELSE {""}) :
            /\ messages' = llm_node(AIMessage(c, WithIds(reqs, nextId)))
            /\ nextId' = nextId + Len(reqs)
    /\ step' = step + 1
    /\ node' = "route"
    /\ trace' = [trace EXCEPT !.invoked = @ + 1, !.prompt = model_input(messages)]
    /\ UNCHANGED <<route, cycles, error, initial, budget, attached, rag, side_vars>>

\* mutant: the conditional edge is counted as a step of the run
RouteCounted ==
    /\ node = "route"
    /\ route' \in edges("llm", messages)
    /\ step' = step + 1
    /\ IF route' = "tools"
       THEN /\ node' = enter("tools", step')
            /\ error' = enter_error(step')
       ELSE /\ node' = "__end__"
            /\ error' = error
    /\ attached' = attach(error', messages, messages)
    /\ UNCHANGED <<messages, cycles, nextId, initial, budget, rag, trace, side_vars>>

\* the conditional edge after "llm"
Route ==
    /\ node = "route"
    /\ route' \in edges("llm", messages)
    /\ IF route' = "tools"
       THEN /\ node' = enter("tools", step)
            /\ error' = enter_error(step)
       ELSE /\ node' = "__end__"
            /\ error' = error
    /\ attached' = attach(error', messages, messages)
    /\ UNCHANGED <<messages, step, cycles, nextId, initial, budget, rag, trace, side_vars>>

\* the number of times x occurs in the sequence s
Count(x, s) == Cardinality({k \in 1..Len(s) : s[k] = x})

\* the "tools" node and the edge tools -> llm
ToolNode ==
    /\ node = "tools"
    /\ \A i \in 1..Len(Last(messages).tool_calls) :
            Count(Last(messages).tool_calls[i].id, trace.executed) < MaxAttempts
    /\ LET r == tool_node(messages)
       IN  IF r.ok
           THEN /\ messages' = add_messages(messages, r.messages)
                /\ step' = step + 1
                /\ cycles' = cycles + 1
                /\ \E next \in edges("tools", messages') : node' = enter(next, step')
                /\ error' = enter_error(step')
           ELSE /\ node' = on_exception(node)
                /\ error' = IF node' = "error" THEN r.error ELSE error
                /\ UNCHANGED <<messages, step, cycles>>
    /\ route' = "none"
    /\ attached' = attach(error', messages, messages')
    /\ trace' = [trace EXCEPT !.executed =
                    @ \o invoked_calls(Last(messages).tool_calls,
                                       call_order(Len(Last(messages).tool_calls)))]
    /\ UNCHANGED <<nextId, initial, budget, rag, side_vars>>

Next == LLMNode \/ Route \/ ToolNode

Spec == Init /\ [][Next]_vars

\* the graph runtime always runs the next scheduled node
FairSpec == Spec /\ WF_vars(Next)

\* the "llm" node when the model endpoint fails: the exception of
\* llm_with_tools.invoke leaves the node, and nothing is appended
LLMFail ==
    /\ node = "llm"
    /\ trace.invoked <= step
    /\ node' = on_exception(node)
    /\ error' = IF node' = "error" THEN "ModelError" ELSE error
    /\ trace' = [trace EXCEPT !.invoked = @ + 1, !.prompt = model_input(messages)]
    /\ UNCHANGED <<messages, route, step, cycles, nextId, initial, budget,
                   attached, rag, side_vars>>

FaultNext == LLMNode \/ LLMFail \/ Route \/ ToolNode

\* the runs of the graph with a model endpoint that can fail
FaultSpec == Init /\ [][FaultNext]_vars

(***************************************************************************)
(* The runs of the notebook: one caller message, and a model endpoint that *)
(* does what the message asks, one tool call per answer, taking each       *)
(* operand from the output of the call before.                             *)
(***************************************************************************)
\* the default ceiling on the steps of one invoke
RecursionLimit == 25

\* "Add {a} and {b}. Multiply the output by {c}. Then divide it by {d}"
ChainRequest(a, b, c, d) ==
    <<"Add", a, "and", b, ". Multiply the output by", c, ". Then divide it by", d>>

Operands == [a : {11, 7}, b : {53, 1}, c : {2, 3}, d : {16, 4, 0}]

Greetings == {<<"Hello">>, <<"Good", "morning">>}

ScenarioContents ==
    {ChainRequest(o.a, o.b, o.c, o.d) : o \in Operands} \cup Greetings

IsChainRequest(m) == m.type = "human" /\ m.content[1] = "Add"

\* the value a tool-result message shows to the model: the end of its text
Shown(m) == Last(m.content)

\* the answer of the model endpoint to the log msgs
chaining_model(msgs, first) ==
    LET ask == msgs[1]
        n == Cardinality({i \in 1..Len(msgs) : msgs[i].type = "tool"})
        request(name, x, y) ==
            AIMessage("", WithIds(<<[name |-> name, args |-> [a |-> x, b |-> y]]>>, first))
    IN  IF ~IsChainRequest(ask)
        THEN AIMessage(<<"Hello!", "How can I assist you today?">>, <<>>)
        ELSE CASE n = 0 -> request("add", ask.content[2], ask.content[4])
               [] n = 1 -> request("multiply", Shown(Last(msgs)).num, ask.content[6])
               [] n = 2 -> request("divide", Shown(Last(msgs)).num, ask.content[8])
               [] OTHER -> AIMessage(<<"The final result is", Shown(Last(msgs))>>, <<>>)

ScenarioInit ==
    /\ initial \in {<<HumanMessage(c)>> : c \in ScenarioContents}
    /\ messages = initial
    /\ node \in edges("__start__", initial)
    /\ route = "none"
    /\ step = 0
    /\ cycles = 0
    /\ error = "none"
    /\ nextId = 1
    /\ budget = RecursionLimit
    /\ attached = <<>>
    /\ rag = NoRag
    /\ trace = NoTrace
    /\ SideIdle

\* the "llm" node, with the chaining endpoint behind it
ScriptedLLM ==
    /\ node = "llm"
    /\ LET answer == chaining_model(messages, nextId)
       IN  /\ messages' = llm_node(answer)
           /\ nextId' = nextId + Len(answer.tool_calls)
    /\ step' = step + 1
    /\ node' = "route"
    /\ trace' = [trace EXCEPT !.invoked = @ + 1, !.prompt = model_input(messages)]
    /\ UNCHANGED <<route, cycles, error, initial, budget, attached, rag, side_vars>>

ScenarioNext == ScriptedLLM \/ Route \/ ToolNode

ScenarioSpec == ScenarioInit /\ [][ScenarioNext]_vars

(***************************************************************************)
(* The retrieval tool of the RAG agent and the vector store behind it.     *)
(***************************************************************************)
\* the number of chunks retrieve asks the vector store for
K == 3

\* the chunks the ingestion can put into the store: one per page
Chunks ==
    {[page_content |-> <<"text of page", p>>,
      metadata |-> [page |-> p, source |-> "../data/Meta Terms of Service.pdf"]] :
        p \in 1..MaxPage}

Queries == {"What can Meta do with my personal data?", "Who owns the content I post?"}

IsInjective(s) == \A i, j \in 1..Len(s) : s[i] = s[j] => i = j

\* the rankings the store can answer a query with: at most k of its chunks,
\* each at most once, best first
max_marginal_relevance_search(store, query, k) ==
    {s \in SeqsUpTo(store, 0, k) : IsInjective(s)}

\* mutant: the sections are numbered as enumerate numbers by default
format_chunks_from_zero(retrieved_chunks) ==
    [i \in 1..Len(retrieved_chunks) |->
        <<"##", i - 1, ". Retrieved Document Chunk",
          "### Chunk Metadata:", retrieved_chunks[i].metadata,
          "### Chunk Content:", retrieved_chunks[i].page_content>>]

\* context: one section per chunk, enumerate(retrieved_chunks, start=1)
format_chunks(retrieved_chunks) ==
    [i \in 1..Len(retrieved_chunks) |->
        <<"##", i, ". Retrieved Document Chunk",
          "### Chunk Metadata:", retrieved_chunks[i].metadata,
          "### Chunk Content:", retrieved_chunks[i].page_content>>]

ContextHeader ==
    "Use the following pieces of context retrieved from the documents to answer the question. If you don't have enough information to answer the question, say that you can't answer it."

\* the body of retrieve once the store has answered
retrieve(retrieved_chunks) ==
    LET context == format_chunks(retrieved_chunks)
        context_message == <<ContextHeader, "# Context", context>>
    IN  Returned(context_message, retrieved_chunks)

RetrieveInit ==
    /\ rag = NoRag
    /\ messages = <<>>
    /\ initial = <<>>
    /\ node = "retrieve"
    /\ route = "none"
    /\ step = 0
    /\ cycles = 0
    /\ error = "none"
    /\ nextId = 1
    /\ budget = RecursionLimit
    /\ attached = <<>>
    /\ trace = NoTrace
    /\ SideIdle

\* ingestion: one more chunk is added to the vector store
AddChunk ==
    /\ \E c \in Chunks \ rag.store :
            rag' = [rag EXCEPT !.store = @ \cup {c}]
    /\ UNCHANGED <<messages, node, route, step, cycles, error, nextId,
                   initial, budget, attached, trace, side_vars>>

\* one call of the tool retrieve
Retrieve ==
    /\ \E query \in Queries :
       \E retrieved_chunks \in max_marginal_relevance_search(rag.store, query, K) :
            LET r == retrieve(retrieved_chunks)
            IN  rag' = [store |-> rag.store, query |-> query,
                        found |-> retrieved_chunks, called |-> TRUE,
                        content |-> r.content, artifact |-> r.artifact]
    /\ UNCHANGED <<messages, node, route, step, cycles, error, nextId,
                   initial, budget, attached, trace, side_vars>>

RetrieveNext == AddChunk \/ Retrieve

RetrieveSpec == RetrieveInit /\ [][RetrieveNext]_vars

(***************************************************************************)
(* The conversation agent: run(initial_messages, thread_id) with the       *)
(* option use_memory, and several threads running at the same time.        *)
(***************************************************************************)
\* most runs on one thread
MaxRuns == 2

Threads == {"client_123", "client_456"}

\* what the caller of each thread can pass to a run
ThreadInputs ==
    [t \in Threads |->
        IF t = "client_123"
        THEN {<<HumanMessage(ChainRequest(11, 53, 2, 16))>>, <<HumanMessage(<<"Hello">>)>>}
        ELSE {<<HumanMessage(ChainRequest(7, 1, 3, 4))>>, <<HumanMessage(<<"Good", "morning">>)>>}]

loop_vars == <<messages, node, route, step, cycles, error, nextId, initial,
               budget, attached>>

\* the notebook's graph is not running
LoopIdle ==
    /\ messages = <<>>
    /\ initial = <<>>
    /\ node = "none"
    /\ route = "none"
    /\ step = 0
    /\ cycles = 0
    /\ error = "none"
    /\ nextId = 1
    /\ budget = RecursionLimit
    /\ attached = <<>>

\* mutant: every thread is persisted under the same key
thread_key_shared(thread_id) == "client_123"

\* the key a thread's Conversation State is persisted under
thread_key(thread_id) == thread_id

\* mutant: every run starts from an empty state
restore_fresh(use_memory, saved) == <<>>

\* the state a run starts from, before the caller's messages are appended
restore(use_memory, saved) == IF use_memory THEN saved ELSE <<>>

\* the positions of the human messages of a log
Humans(msgs) == {i \in 1..Len(msgs) : msgs[i].type = "human"}

\* the answer of the model endpoint of the agent: it works on the latest
\* request of the caller, one tool call per answer
conversation_model(msgs) ==
    LET h == CHOOSE i \in Humans(msgs) : \A k \in Humans(msgs) : k <= i
        ask == msgs[h]
        n == Cardinality({i \in (h + 1)..Len(msgs) : msgs[i].type = "tool"})
        first == Len(msgs) + 1
        request(name, x, y) ==
            AIMessage("", WithIds(<<[name |-> name, args |-> [a |-> x, b |-> y]]>>, first))
    IN  IF ~IsChainRequest(ask)
        THEN AIMessage(<<"Hello!", "How can I assist you today?">>, <<>>)
        ELSE CASE n = 0 -> request("add", ask.content[2], ask.content[4])
               [] n = 1 -> request("multiply", Shown(Last(msgs)).num, ask.content[6])
               [] n = 2 -> request("divide", Shown(Last(msgs)).num, ask.content[8])
               [] OTHER -> AIMessage(<<"The final result is", Shown(Last(msgs))>>, <<>>)

\* one step of the loop on the log msgs at node n: the log and the node after
loop_step(n, msgs) ==
    IF n = "llm"
    THEN LET after == add_messages(msgs, <<conversation_model(msgs)>>)
         IN  [node |-> tools_condition(after), messages |-> after]
    ELSE LET r == tool_node(msgs)
         IN  IF r.ok
             THEN [node |-> "llm", messages |-> add_messages(msgs, r.messages)]
             ELSE [node |-> "error", messages |-> msgs]

\* the run of the loop from the log msgs, on its own
RECURSIVE run_alone(_, _)
run_alone(n, msgs) ==
    IF n \in {"__end__", "error"}
    THEN msgs
    ELSE LET s == loop_step(n, msgs) IN run_alone(s.node, s.messages)

IdleRun == [status |-> "idle", node |-> "none", messages |-> <<>>, input |-> <<>>,
            prev |-> <<>>, supplied |-> <<>>, count |-> 0]

ThreadInit ==
    /\ LoopIdle
    /\ rag = NoRag
    /\ trace = NoTrace
    /\ config \in [use_memory : BOOLEAN, parallel_tool_calls : {FALSE}]
    /\ runs = [t \in Threads |-> IdleRun]
    /\ checkpoints = [k \in Threads |-> <<>>]
    /\ workflow = NoWorkflow
    /\ loader = NoLoader

\* run(input, thread_id): the run starts from the persisted state, if any
StartRun(t) ==
    /\ runs[t].status \in {"idle", "done"}
    /\ runs[t].count < MaxRuns
    /\ \E input \in ThreadInputs[t] :
            runs' = [runs EXCEPT ![t] =
                        [status |-> "running",
                         node |-> "llm",
                         messages |-> add_messages(
                                restore(config.use_memory, checkpoints[thread_key(t)]),
                                input),
                         input |-> input,
                         prev |-> runs[t].messages,
                         supplied |-> runs[t].supplied \o input,
                         count |-> runs[t].count + 1]]
    /\ UNCHANGED <<loop_vars, rag, trace, config, checkpoints, workflow, loader>>

\* one step of the run on thread t; the state is persisted after the step
StepRun(t) ==
    /\ runs[t].status = "running"
    /\ LET s == loop_step(runs[t].node, runs[t].messages)
       IN  /\ runs' = [runs EXCEPT ![t].node = s.node,
                                   ![t].messages = s.messages,
                                   ![t].status = IF s.node \in {"__end__", "error"}
                                                 THEN "done" ELSE "running"]
           /\ checkpoints' = IF config.use_memory
                             THEN [checkpoints EXCEPT ![thread_key(t)] = s.messages]
                             ELSE checkpoints
    /\ UNCHANGED <<loop_vars, rag, trace, config, workflow, loader>>

ThreadNext == \E t \in Threads : StartRun(t) \/ StepRun(t)

ThreadSpec == ThreadInit /\ [][ThreadNext]_vars

(***************************************************************************)
(* The graph with the option parallel_tool_calls: when it is set, one      *)
(* answer of the model may request several calls, and the calls of one     *)
(* dispatch may be carried out in any order.                               *)
(***************************************************************************)
\* the requests the model endpoint can make in these runs
ParallelChoices ==
    { [name |-> "add", args |-> [a |-> 11, b |-> 53]],
      [name |-> "multiply", args |-> [a |-> 64, b |-> 2]],
      [name |-> "divide", args |-> [a |-> 128, b |-> 0]] }

\* most calls in one answer: bind_tools(tools, parallel_tool_calls=...)
calls_per_answer(parallel_tool_calls) ==
    IF parallel_tool_calls THEN MaxCalls ELSE 1

\* mutant: a concurrent dispatch may pick the same call twice
execution_orders_repeating(n, parallel_tool_calls) ==
    IF parallel_tool_calls THEN [1..n -> 1..n] ELSE {call_order(n)}

\* the orders in which the n calls of one dispatch can be carried out
execution_orders(n, parallel_tool_calls) ==
    IF parallel_tool_calls
    THEN {s \in [1..n -> 1..n] : IsInjective(s)}
    ELSE {call_order(n)}

ParallelInit ==
    /\ initial \in {<<HumanMessage(c)>> : c \in HumanContents}
    /\ messages = initial
    /\ node \in edges("__start__", initial)
    /\ route = "none"
    /\ step = 0
    /\ cycles = 0
    /\ error = "none"
    /\ nextId = 1
    /\ budget = StepBudget
    /\ attached = <<>>
    /\ rag = NoRag
    /\ trace = NoTrace
    /\ config \in [use_memory : {FALSE}, parallel_tool_calls : BOOLEAN]
    /\ runs = <<>>
    /\ checkpoints = <<>>
    /\ workflow = NoWorkflow
    /\ loader = NoLoader

\* the "llm" node, the model bound with parallel_tool_calls
ParallelLLM ==
    /\ node = "llm"
    /\ \E reqs \in SeqsUpTo(ParallelChoices, 0,
                            calls_per_answer(config.parallel_tool_calls)) :
       \E c \in (IF reqs = <<>> THEN AnswerContents ELSE {""}) :
            /\ messages' = llm_node(AIMessage(c, WithIds(reqs, nextId)))
            /\ nextId' = nextId + Len(reqs)
    /\ step' = step + 1
    /\ node' = "route"
    /\ trace' = [trace EXCEPT !.invoked = @ + 1, !.prompt = model_input(messages)]
    /\ UNCHANGED <<route, cycles, error, initial, budget, attached, rag, side_vars>>

\* the "tools" node, carrying out the calls in one of the possible orders
ParallelToolNode ==
    /\ node = "tools"
    /\ LET calls == Last(messages).tool_calls
       IN  \E order \in execution_orders(Len(calls), config.parallel_tool_calls) :
            LET r == run_calls(calls, order, <<>>)
            IN  /\ IF r.ok
                   THEN /\ messages' = add_messages(messages, r.messages)
                        /\ step' = step + 1
                        /\ cycles' = cycles + 1
                        /\ \E next \in edges("tools", messages') :
                                node' = enter(next, step')
                        /\ error' = enter_error(step')
                   ELSE /\ node' = on_exception(node)
                        /\ error' = r.error
                        /\ UNCHANGED <<messages, step, cycles>>
                /\ trace' = [trace EXCEPT !.executed = @ \o invoked_calls(calls, order)]
    /\ route' = "none"
    /\ attached' = attach(error', messages, messages')
    /\ UNCHANGED <<nextId, initial, budget, rag, side_vars>>

ParallelNext == ParallelLLM \/ Route \/ ParallelToolNode

ParallelSpec == ParallelInit /\ [][ParallelNext]_vars

(***************************************************************************)
(* The multi-agent legal workflow: Iris, the conversation agent, talks to  *)
(* the client and hands over to the drafting agent.                        *)
(***************************************************************************)
\* most messages of the client in one conversation
MaxTurns == 3

ClientMessages ==
    {"I need help with an acquisition", "I need help with intellectual property protection"}

LegalAreas == {"mergers_and_acquisitions", "intellectual_property"}

IrisIntroduction == "Hello! I'm Iris, the AI front-of-house for our law firm..."

NoHandoff == [received |-> FALSE, messages |-> <<>>, extracted |-> <<>>]

\* the request of a tool without arithmetic arguments, and its result
IrisCall(name, id) ==
    AIMessage("", <<[name |-> name, args |-> <<>>, id |-> id, type |-> "tool_call"]>>)

\* what Iris has gathered: the client's messages and the legal area
extract(msgs, legal_area) ==
    [legal_area |-> legal_area,
     client |-> [i \in 1..Cardinality(Humans(msgs)) |->
                    msgs[CHOOSE h \in Humans(msgs) :
                            Cardinality({k \in Humans(msgs) : k <= h}) = i].content]]

\* mutant: the conversation goes to drafting as soon as the area is known
next_stage_eager(conversation_complete, legal_area) ==
    IF conversation_complete \/ legal_area # "none" THEN "drafting" ELSE "human"

\* where the workflow goes after Iris has answered
next_stage(conversation_complete, legal_area) ==
    IF conversation_complete THEN "drafting" ELSE "human"

WorkflowInit ==
    /\ LoopIdle
    /\ rag = NoRag
    /\ trace = NoTrace
    /\ config = NoConfig
    /\ runs = <<>>
    /\ checkpoints = <<>>
    /\ loader = NoLoader
    /\ workflow = [stage |-> "iris", messages |-> <<>>, turns |-> 0,
                   conversation_complete |-> FALSE, legal_area |-> "none",
                   extracted |-> <<>>, handoff |-> NoHandoff,
                   document |-> "none"]

\* workflow.run({"messages": []}): Iris introduces herself
IrisIntroduce ==
    /\ workflow.stage = "iris"
    /\ workflow.messages = <<>>
    /\ workflow' = [workflow EXCEPT
                        !.messages = <<AIMessage(IrisIntroduction, <<>>)>>,
                        !.stage = next_stage(FALSE, workflow.legal_area)]
    /\ UNCHANGED <<loop_vars, rag, trace, config, runs, checkpoints, loader>>

\* the client answers
ClientTurn ==
    /\ workflow.stage = "human"
    /\ workflow.turns < MaxTurns
    /\ \E c \in ClientMessages :
            workflow' = [workflow EXCEPT
                            !.messages = Append(@, HumanMessage(c)),
                            !.turns = @ + 1,
                            !.stage = "iris"]
    /\ UNCHANGED <<loop_vars, rag, trace, config, runs, checkpoints, loader>>

\* Iris classifies the legal area and asks her next question
IrisAsk ==
    /\ workflow.stage = "iris"
    /\ workflow.messages # <<>>
    /\ \E area \in LegalAreas :
        LET id == Len(workflow.messages) + 1
        IN  workflow' = [workflow EXCEPT
                !.messages = @ \o
                    <<IrisCall("classify_legal_area", id),
                      ToolMessage(<<"legal area:", area>>, "classify_legal_area", id, NoValue),
                      AIMessage("What's the approximate deal size?", <<>>)>>,
                !.legal_area = area,
                !.stage = next_stage(FALSE, area)]
    /\ UNCHANGED <<loop_vars, rag, trace, config, runs, checkpoints, loader>>

\* Iris has what she needs: she calls end_conversation
IrisEnd ==
    /\ workflow.stage = "iris"
    /\ workflow.legal_area # "none"
    /\ LET id == Len(workflow.messages) + 1
           after == workflow.messages \o
                    <<IrisCall("end_conversation", id),
                      ToolMessage(<<"conversation complete">>, "end_conversation", id, NoValue)>>
       IN  workflow' = [workflow EXCEPT
                !.messages = after,
                !.conversation_complete = TRUE,
                !.extracted = extract(after, workflow.legal_area),
                !.stage = next_stage(TRUE, workflow.legal_area)]
    /\ UNCHANGED <<loop_vars, rag, trace, config, runs, checkpoints, loader>>

\* the drafting agent receives the conversation and the extracted data
Drafting ==
    /\ workflow.stage = "drafting"
    /\ workflow' = [workflow EXCEPT
                        !.handoff = [received |-> TRUE,
                                     messages |-> workflow.messages,
                                     extracted |-> workflow.extracted],
                        !.document = "pitch deck",
                        !.stage = "done"]
    /\ UNCHANGED <<loop_vars, rag, trace, config, runs, checkpoints, loader>>

WorkflowNext == IrisIntroduce \/ ClientTurn \/ IrisAsk \/ IrisEnd \/ Drafting

WorkflowSpec == WorkflowInit /\ [][WorkflowNext]_vars

(***************************************************************************)
(* The math tools on their own: one request for one tool, dispatched.      *)
(***************************************************************************)
\* the operands of the request are between -MaxOperand and MaxOperand
MaxOperand == 3

OperandRange == (0 - MaxOperand)..MaxOperand

ToolInit ==
    /\ initial \in {<<HumanMessage(c)>> : c \in HumanContents}
    /\ \E name \in {tools[i] : i \in 1..Len(tools)} :
       \E a \in OperandRange :
       \E b \in OperandRange :
            messages = initial \o
                <<AIMessage("", WithIds(<<[name |-> name, args |-> [a |-> a, b |-> b]]>>, 1))>>
    /\ node = "tools"
    /\ route = "tools"
    /\ step = 1
    /\ cycles = 0
    /\ error = "none"
    /\ nextId = 2
    /\ budget = RecursionLimit
    /\ attached = <<>>
    /\ rag = NoRag
    /\ trace = NoTrace
    /\ SideIdle

ToolNext == ToolNode

ToolSpec == ToolInit /\ [][ToolNext]_vars

(***************************************************************************)
(* Loading the documents: the loop over os.listdir(data_directory) of the  *)
(* RAG notebook.                                                           *)
(***************************************************************************)
\* the data directory holds at most MaxFiles files
MaxFiles == 3

\* a PDF file has at most MaxPdfPages pages
MaxPdfPages == 2

\* file names, one character per element
FileNames ==
    { <<"a", ".", "p", "d", "f">>,
      <<"B", ".", "P", "D", "F">>,
      <<"c", ".", "P", "d", "f">>,
      <<".", "p", "d", "f">>,
      <<"a", "p", "d", "f">>,
      <<"n", ".", "t", "x", "t">>,
      <<"x", ".", "p", "d", "f", ".", "b", "a", "k">> }

\* os.listdir: the names of the directory, each once, in arbitrary order
Listings == {s \in SeqsUpTo(FileNames, 0, MaxFiles) : IsInjective(s)}

\* str.lower, over the characters of FileNames
lower(s) ==
    [k \in 1..Len(s) |->
        CASE s[k] = "B" -> "b"
          [] s[k] = "D" -> "d"
          [] s[k] = "F" -> "f"
          [] s[k] = "P" -> "p"
          [] OTHER -> s[k]]

\* str.endswith
endswith(s, suffix) ==
    /\ Len(suffix) <= Len(s)
    /\ SubSeq(s, Len(s) - Len(suffix) + 1, Len(s)) = suffix

\* mutant: the suffix is compared without its dot
is_pdf_without_dot(file_name) == endswith(lower(file_name), <<"p", "d", "f">>)

\* the condition of the loop body: file_name.lower().endswith(".pdf")
is_pdf(file_name) == endswith(lower(file_name), <<".", "p", "d", "f">>)

\* the pages PyPDFLoader yields in mode="page", in page order
pages_of(file_name, n) == [k \in 1..n |-> [source |-> file_name, page |-> k - 1]]

IngestInit ==
    /\ LoopIdle
    /\ rag = NoRag
    /\ trace = NoTrace
    /\ config = NoConfig
    /\ runs = <<>>
    /\ checkpoints = <<>>
    /\ workflow = NoWorkflow
    /\ loader \in {[file_names |-> s, i |-> 0, docs_pages |-> <<>>, error |-> "none"] :
                        s \in Listings}

\* one iteration of the loop. The loader is library code: it yields the
\* pages of the file, or raises on a file it cannot read, which ends the cell
LoadFile ==
    /\ loader.error = "none"
    /\ loader.i < Len(loader.file_names)
    /\ LET file_name == loader.file_names[loader.i + 1]
       IN  IF is_pdf(file_name)
           THEN \E n \in 0..MaxPdfPages :
                \E raised \in BOOLEAN :
                    loader' = [loader EXCEPT
                        !.docs_pages = @ \o pages_of(file_name, n),
                        !.i = IF raised THEN @ ELSE @ + 1,
                        !.error = IF raised THEN "PdfReadError" ELSE "none"]
           ELSE loader' = [loader EXCEPT !.i = @ + 1]
    /\ UNCHANGED <<loop_vars, rag, trace, config, runs, checkpoints, workflow>>

IngestNext == LoadFile

IngestSpec == IngestInit /\ [][IngestNext]_vars

(***************************************************************************)
(* Properties of the loop.                                                 *)
(***************************************************************************)
IsToolCallRequest(m) == m.type = "ai" /\ Len(m.tool_calls) > 0

Terminated == node \in {"__end__", "error"}

\* the position of the assistant message immediately preceding position i
\* (0 if there is none)
PrecedingAI(i) ==
    LET S == {j \in 1..(i - 1) : messages[j].type = "ai"}
    IN  IF S = {} THEN 0 ELSE CHOOSE j \in S : \A k \in S : k <= j

\* the requests of that message that carry the identifier of the result at i
MatchingCalls(i) ==
    LET p == PrecedingAI(i)
    IN  IF p = 0
        THEN {}
        ELSE {k \in 1..Len(messages[p].tool_calls) :
                messages[p].tool_calls[k].id = messages[i].tool_call_id}

\* C1: referential integrity: in every Conversation State of a run, the
\* call identifier of every tool-result message matches exactly one
\* tool-call request of the immediately preceding assistant message.
C1_ReferentialIntegrity ==
    \A i \in 1..Len(messages) :
        messages[i].type = "tool" => Cardinality(MatchingCalls(i)) = 1

\* a result of the second of two requests for the same tool is in the log
C1_Witness ==
    \E i \in 3..Len(messages) :
        /\ messages[i].type = "tool"
        /\ PrecedingAI(i) = i - 2
        /\ Len(messages[i - 2].tool_calls) = 2
        /\ messages[i - 2].tool_calls[1].name = messages[i - 2].tool_calls[2].name
        /\ messages[i].tool_call_id = messages[i - 2].tool_calls[2].id

\* C2: termination invariant: when the run has reached DONE, the last
\* message is an assistant message whose tool-call list is empty.
C2_FinalMessage ==
    node = "__end__" =>
        /\ messages # <<>>
        /\ Last(messages).type = "ai"
        /\ Len(Last(messages).tool_calls) = 0

\* DONE reached after at least one dispatch
C2_Witness == node = "__end__" /\ cycles >= 1

\* C3: the step budget: a node is entered only while fewer than
\* StepBudget steps have been executed, so neither the steps nor the
\* completed cycles ever exceed the budget, and a run that has used up the
\* budget with a node still to run is in the error state with
\* StepBudgetExceededError.
C3_StepBudget ==
    /\ step <= StepBudget
    /\ cycles <= StepBudget
    /\ (node \in {"llm", "tools"} => step < StepBudget)
    /\ (error = "StepBudgetExceededError" <=> (node = "error" /\ step = StepBudget))

\* the run failed on the budget
C3_Witness == error = "StepBudgetExceededError" /\ step = StepBudget

\* C4: every run eventually stops, at DONE or in the error state, under
\* fair scheduling of the graph's steps.
C4_Termination == <>Terminated

\* the model asked for tools on every invocation and the run was stopped
C4_Witness ==
    /\ node = "error"
    /\ error = "StepBudgetExceededError"
    /\ \A i \in 1..Len(messages) :
            messages[i].type = "ai" => Len(messages[i].tool_calls) > 0
    /\ \E i \in 1..Len(messages) : messages[i].type = "ai"

\* inputs of the router beyond those the loop hands it
RouterSamples ==
    LET call == [name |-> "add", args |-> [a |-> 11, b |-> 53],
                 id |-> 1, type |-> "tool_call"]
        ms == { HumanMessage("Hello"), AIMessage("Hi", <<>>),
                AIMessage("", <<call>>), AIMessage("", <<call, call>>),
                ToolMessage(<<"ok">>, "add", 1, IntValue(64)) }
    IN  SeqsUpTo(ms, 0, 2)

\* C5: the router returns "tools" (continue) if and only if the latest
\* message is an assistant message with a non-empty tool-call list, and
\* "__end__" (stop) in every other case: for the decision it took in the
\* run, and for every sample input.
C5_Router ==
    /\ route # "none" =>
            /\ route \in {"tools", "__end__"}
            /\ route = "tools" <=> IsToolCallRequest(Last(messages))
    /\ \A ms \in RouterSamples :
            /\ tools_condition(ms) \in {"tools", "__end__"}
            /\ tools_condition(ms) = "tools" <=>
                    (ms # <<>> /\ IsToolCallRequest(Last(ms)))

\* the router has just decided to continue
C5_Witness == route = "tools" /\ node = "tools" /\ cycles >= 1

C7_InvokeModel ==
    /\ node = "llm"
    /\ [][node = "llm" =>
            /\ node' = "route"
            /\ Len(messages') = Len(messages) + 1
            /\ SubSeq(messages', 1, Len(messages)) = messages
            /\ Last(messages').type = "ai"]_vars

\* the second model invocation of a run has answered
C7_Witness == node = "route" /\ step = 3 /\ Last(messages).type = "ai"

\* the messages a dispatch step appended
Appended == SubSeq(messages', Len(messages) + 1, Len(messages'))

\* the step appended one tool-result message per requested call
AppendedOnePerCall ==
    LET calls == Last(messages).tool_calls
    IN  /\ IsPrefix(messages, messages')
        /\ Len(Appended) = Len(calls)
        /\ \A i \in 1..Len(Appended) : Appended[i].type = "tool"

FirstFailing(calls) ==
    LET F == {i \in 1..Len(calls) : ~call_tool(calls[i]).ok}
    IN  IF F = {} THEN 0 ELSE CHOOSE i \in F : \A k \in F : i <= k

\* C9: the dispatcher runs the requested calls in the order requested: the
\* i-th tool-result after an assistant message carries the identifier, the
\* name and the output of its i-th request, and a dispatch that fails has
\* failed with the exception of the first failing request.
C9_RequestOrder ==
    /\ \A p \in 1..Len(messages) :
        IsToolCallRequest(messages[p]) =>
            \A i \in 1..Len(messages[p].tool_calls) :
                (p + i <= Len(messages)) =>
                    LET tool_call == messages[p].tool_calls[i]
                        m == messages[p + i]
                    IN  /\ m.type = "tool"
                        /\ m.tool_call_id = tool_call.id
                        /\ m.name = tool_call.name
                        /\ m.content = call_tool(tool_call).content
    /\ (node = "error" /\ error # "StepBudgetExceededError") =>
            LET calls == Last(messages).tool_calls
            IN  /\ FirstFailing(calls) > 0
                /\ error = call_tool(calls[FirstFailing(calls)]).error

\* the results of two requests for different tools are in the log
C9_Witness ==
    \E p \in 1..Len(messages) :
        /\ IsToolCallRequest(messages[p])
        /\ Len(messages[p].tool_calls) = 2
        /\ messages[p].tool_calls[1].name # messages[p].tool_calls[2].name
        /\ p + 2 <= Len(messages)
        /\ messages[p + 2].name = messages[p].tool_calls[2].name

\* C10: the Conversation State of a run is append-only: every step leaves
\* the log a prefix of the next log, so no message is removed, replaced or
\* reordered, and the log, at DONE too, starts with the caller's messages.
C10_AppendOnly ==
    /\ IsPrefix(initial, messages)
    /\ [][/\ IsPrefix(messages, messages')
          /\ initial' = initial
          /\ IsPrefix(initial, messages')]_vars

\* DONE with two caller messages and a dispatch of two calls behind them
C10_Witness ==
    /\ node = "__end__"
    /\ Len(initial) = 2
    /\ Len(messages) = Len(initial) + 4

(***************************************************************************)
(* Failures of the dispatcher.                                             *)
(***************************************************************************)
\* the exceptions a tool call can end the run with
ToolErrors == {"KeyError", "ValidationError", "ValueError"}

\* the positions of the messages a step appended that answer tool_call
ResultsFor(tool_call) ==
    {k \in (Len(messages) + 1)..Len(messages') :
        messages'[k].type = "tool" /\ messages'[k].tool_call_id = tool_call.id}

BadArguments(tool_call) ==
    \/ DOMAIN tool_call.args # {"a", "b"}
    \/ tool_call.name = "divide" /\ tool_call.args.b = 0

RaisesInBody(tool_call) ==
    /\ tool_call.name = "divide"
    /\ DOMAIN tool_call.args = {"a", "b"}
    /\ tool_call.args.b = 0

\* a request that does not get as far as a result
Fails(tool_call) ==
    tool_call.name \notin tools_by_name \/ BadArguments(tool_call)

C15_BudgetErrorState ==
    /\ [](error = "StepBudgetExceededError" =>
            /\ node = "error"
            /\ attached = messages
            /\ IsPrefix(initial, attached)
            /\ Cardinality({i \in 1..Len(attached) : attached[i].type = "ai"})
                    = step - cycles)
    /\ [](error # "StepBudgetExceededError" => attached = <<>>)
    /\ [][error # "StepBudgetExceededError"]_vars

\* the budget ran out right after a dispatch appended its results
C15_Witness ==
    /\ error = "StepBudgetExceededError"
    /\ attached # <<>>
    /\ Last(attached).type = "tool"

\* the request the tool-result at position i answers
RequestOf(i) ==
    messages[PrecedingAI(i)].tool_calls[CHOOSE k \in MatchingCalls(i) : TRUE]

ToolResults == {i \in 1..Len(messages) : messages[i].type = "tool"}

Asked == [a |-> initial[1].content[2], b |-> initial[1].content[4],
          c |-> initial[1].content[6], d |-> initial[1].content[8]]

\* message i requests exactly the call name(x, y)
Requests(i, name, x, y) ==
    /\ messages[i].type = "ai"
    /\ Len(messages[i].tool_calls) = 1
    /\ messages[i].tool_calls[1].name = name
    /\ messages[i].tool_calls[1].args = [a |-> x, b |-> y]

\* message i is the result of the call requested by message i - 1
Answers(i, name, content, artifact) ==
    /\ messages[i].type = "tool"
    /\ messages[i].name = name
    /\ messages[i].tool_call_id = messages[i - 1].tool_calls[1].id
    /\ messages[i].content = content
    /\ messages[i].artifact = artifact

\* C17: with a model that chains the outputs, "Add a and b. Multiply the
\* output by c. Then divide it by d" (d # 0) ends in DONE after three
\* cycles of one call each: add(a, b), multiply(a + b, c) and
\* divide((a + b) * c, d), each requested only after the result of the one
\* before, and the log is the 8 messages human, (ai, tool) x 3, ai, the
\* last one reporting the quotient. For the notebook's request the results
\* are 64, 128 and 8.0.
C17_Scenario1 ==
    (IsChainRequest(initial[1]) /\ Asked.d # 0) =>
        LET sum == Asked.a + Asked.b
            product == sum * Asked.c
            quotient == FloatValue(product, Asked.d)
        IN  /\ error = "none"
            /\ \A p \in 2..Len(messages) :
                    /\ (messages[p].type = "ai" /\ Len(messages[p].tool_calls) > 0) =>
                            Len(messages[p].tool_calls) = 1
                    /\ Requests(p, "multiply", sum, Asked.c) =>
                            messages[p - 1].type = "tool" /\ messages[p - 1].name = "add"
                    /\ Requests(p, "divide", product, Asked.d) =>
                            messages[p - 1].type = "tool" /\ messages[p - 1].name = "multiply"
            /\ node = "__end__" =>
                /\ Len(messages) = 8
                /\ cycles = 3
                /\ step = 7
                /\ messages[1] = initial[1]
                /\ Requests(2, "add", Asked.a, Asked.b)
                /\ Answers(3, "add",
                        <<"Adding", Asked.a, "and", Asked.b, "gives", IntValue(sum)>>,
                        IntValue(sum))
                /\ Requests(4, "multiply", sum, Asked.c)
                /\ Answers(5, "multiply",
                        <<"Multiplying", sum, "and", Asked.c, "gives", IntValue(product)>>,
                        IntValue(product))
                /\ Requests(6, "divide", product, Asked.d)
                /\ Answers(7, "divide",
                        <<"Dividing", product, "by", Asked.d, "gives", quotient>>,
                        quotient)
                /\ messages[8].type = "ai"
                /\ messages[8].tool_calls = <<>>
                /\ Shown(messages[8]) = quotient
                /\ (initial[1].content = ChainRequest(11, 53, 2, 16) =>
                        /\ messages[3].artifact = IntValue(64)
                        /\ messages[5].artifact = IntValue(128)
                        /\ messages[7].artifact = [kind |-> "float", num |-> 8, den |-> 1])

\* the notebook's run has ended
C17_Witness ==
    /\ initial[1].content = ChainRequest(11, 53, 2, 16)
    /\ node = "__end__"
    /\ Len(messages) = 8

\* C18: when the caller's message is a greeting and the first model
\* invocation requests no tool, the router stops at once: DISPATCH_TOOLS is
\* never entered and the run returns exactly two messages, the caller's and
\* the assistant's.
C18_Scenario2 ==
    (~IsChainRequest(initial[1])) =>
        /\ node # "tools"
        /\ cycles = 0
        /\ step <= 1
        /\ error = "none"
        /\ Len(messages) <= 2
        /\ node = "__end__" =>
            /\ route = "__end__"
            /\ step = 1
            /\ Len(messages) = 2
            /\ messages[1] = initial[1]
            /\ messages[2].type = "ai"
            /\ messages[2].tool_calls = <<>>

\* the run that started with a greeting is DONE
C18_Witness ==
    /\ initial[1].content \in Greetings
    /\ node = "__end__"
    /\ Len(messages) = 2

\* C19: the retrieval tool returns at most K = 3 chunks of the store, as
\* the store ranked them: the artifact is that ranked list unchanged, and
\* the content holds, after its fixed header, exactly one section per
\* chunk, the i-th section numbered i (from 1) and showing the metadata and
\* the text of the i-th ranked chunk.
C19_Scenario3 ==
    rag.called =>
        /\ Len(rag.artifact) <= K
        /\ rag.artifact = rag.found
        /\ IsInjective(rag.artifact)
        /\ \A i \in 1..Len(rag.artifact) : rag.artifact[i] \in rag.store
        /\ rag.content[1] = ContextHeader
        /\ Len(rag.content[3]) = Len(rag.artifact)
        /\ \A i \in 1..Len(rag.artifact) :
                /\ rag.content[3][i][2] = i
                /\ rag.content[3][i][5] = rag.artifact[i].metadata
                /\ rag.content[3][i][7] = rag.artifact[i].page_content

\* three chunks were retrieved from a larger store, ranked in an order that
\* is not the order of their pages
C19_Witness ==
    /\ rag.called
    /\ Cardinality(rag.store) > K
    /\ Len(rag.artifact) = K
    /\ rag.artifact[1].metadata.page > rag.artifact[2].metadata.page
    /\ rag.content[3][K][2] = K

(***************************************************************************)
(* One thread of control.                                                  *)
(***************************************************************************)
\* the messages of the given type a step appended
AppendedOf(type) ==
    {k \in (Len(messages) + 1)..Len(messages') : messages'[k].type = type}

\* C20: a run is one thread of control: no node of the graph schedules more
\* than one successor, so at most one node runs at a time; the steps are
\* counted one by one; and a step is either one model invocation (one
\* assistant message appended, by the llm node only) or one tool dispatch
\* (tool-results only, by the tools node only), never both and never two
\* model invocations at once.
C20_SingleThread ==
    /\ [](\A n \in {"__start__", "llm", "tools", "__end__"} :
            Cardinality(edges(n, messages)) <= 1)
    /\ [][/\ step' \in {step, step + 1}
          /\ Cardinality(AppendedOf("ai")) <= 1
          /\ AppendedOf("ai") = {} \/ AppendedOf("tool") = {}
          /\ AppendedOf("ai") # {} => node = "llm" /\ node' = "route"
          /\ AppendedOf("tool") # {} => node = "tools" /\ node' \in {"llm", "error"}
          /\ node' = "tools" => node = "route"]_vars

\* a second model invocation is about to start, after a dispatch of two
\* calls has completed
C20_Witness ==
    /\ node = "llm"
    /\ step = 2
    /\ cycles = 1
    /\ Len(messages) = Len(initial) + 3

(***************************************************************************)
(* Threads and memory.                                                     *)
(***************************************************************************)
\* the state the run on thread t started from
StartOf(t) ==
    (IF config.use_memory THEN runs[t].prev ELSE <<>>) \o runs[t].input

\* C21: runs on different threads are independent: under every
\* interleaving of their steps, every human message in the state of a run
\* was supplied by the caller of its own thread, no message of the state
\* comes from the other thread's input, and the final state of a run is the
\* state the loop produces on its own from the run's start state.
C21_Independent ==
    \A t \in Threads :
        /\ \A i \in Humans(runs[t].messages) :
                \E k \in 1..Len(runs[t].supplied) :
                    runs[t].messages[i] = runs[t].supplied[k]
        /\ \A u \in Threads \ {t} :
           \A i \in Humans(runs[t].messages) :
           \A input \in ThreadInputs[u] :
                runs[t].messages[i] # input[1]
        /\ runs[t].status = "done" =>
                runs[t].messages = run_alone("llm", StartOf(t))

\* both threads have finished a run, one while the other was in progress
C21_Witness ==
    /\ runs["client_123"].status = "done"
    /\ runs["client_456"].status = "done"
    /\ Len(runs["client_123"].messages) = 8
    /\ Len(runs["client_456"].messages) = 8
    /\ config.use_memory

\* C22: with use_memory a run on a thread starts with the full final state
\* of the earlier run on that thread followed by the new input, and the
\* persisted state is the thread's own; without use_memory a run starts
\* from the caller's messages only and nothing is persisted.
C22_Memory ==
    \A t \in Threads :
        /\ runs[t].status # "idle" =>
                /\ IsPrefix(StartOf(t), runs[t].messages)
                /\ Len(runs[t].messages) > Len(StartOf(t)) =>
                        runs[t].messages[Len(StartOf(t)) + 1].type = "ai"
        /\ (~config.use_memory /\ runs[t].status # "idle") =>
                /\ SubSeq(runs[t].messages, 1, Len(runs[t].input)) = runs[t].input
                /\ Humans(runs[t].messages) = 1..Len(runs[t].input)
        /\ ~config.use_memory => checkpoints[t] = <<>>
        /\ (config.use_memory /\ runs[t].status = "done") =>
                checkpoints[t] = runs[t].messages

\* a second run on a thread has resumed the eight messages of the first
C22_Witness ==
    /\ config.use_memory
    /\ runs["client_123"].count = 2
    /\ Len(runs["client_123"].prev) = 8
    /\ runs["client_123"].status = "done"
    /\ Len(runs["client_123"].messages) > 9

(***************************************************************************)
(* Parallel tool calls.                                                    *)
(***************************************************************************)
\* the step appended one tool-result per requested call, each with the
\* identifier, the name and the output of its own request, in some order
OneResultPerCall ==
    LET calls == Last(messages).tool_calls
    IN  /\ Len(messages') = Len(messages) + Len(calls)
        /\ IsPrefix(messages, messages')
        /\ \A k \in (Len(messages) + 1)..Len(messages') : messages'[k].type = "tool"
        /\ \A i \in 1..Len(calls) :
            /\ Cardinality(ResultsFor(calls[i])) = 1
            /\ \A k \in ResultsFor(calls[i]) :
                /\ messages'[k].name = calls[i].name
                /\ messages'[k].content = call_tool(calls[i]).content
                /\ messages'[k].artifact = call_tool(calls[i]).artifact

with_artifacts(msgs, v) ==
    [i \in 1..Len(msgs) |->
        IF msgs[i].type = "tool" THEN [msgs[i] EXCEPT !.artifact = v] ELSE msgs[i]]

\* the artifacts another run's tools could have returned with the same contents
OtherArtifacts == {NoValue, IntValue(0), FloatValue(1, 2)}

RequestedIds ==
    UNION {{messages[p].tool_calls[i].id : i \in 1..Len(messages[p].tool_calls)} :
                p \in 1..Len(messages)}

\* the assistant messages the run has appended
AnswersAppended ==
    Cardinality({i \in (Len(initial) + 1)..Len(messages) : messages[i].type = "ai"})

EndCalled(msgs) ==
    \E i \in 1..Len(msgs) :
        /\ msgs[i].type = "ai"
        /\ Len(msgs[i].tool_calls) = 1
        /\ msgs[i].tool_calls[1].name = "end_conversation"

Dispatched == messages[2].tool_calls[1]

\* C27: for all operands a and b of the range, add(a, b) has artifact
\* a + b and multiply(a, b) artifact a * b, with a content naming both
\* operands and the result; divide(a, b) has the quotient a / b as artifact
\* when b is not 0, and raises ValueError, producing neither content nor
\* artifact, when b is 0.
C27_Arithmetic ==
    node # "tools" =>
        LET a == Dispatched.args.a
            b == Dispatched.args.b
        IN  /\ Dispatched.name = "add" =>
                /\ Len(messages) = 3
                /\ messages[3].artifact = [kind |-> "int", num |-> a + b, den |-> 1]
                /\ messages[3].content =
                        <<"Adding", a, "and", b, "gives", messages[3].artifact>>
            /\ Dispatched.name = "multiply" =>
                /\ Len(messages) = 3
                /\ messages[3].artifact = [kind |-> "int", num |-> a * b, den |-> 1]
                /\ messages[3].content =
                        <<"Multiplying", a, "and", b, "gives", messages[3].artifact>>
            /\ (Dispatched.name = "divide" /\ b # 0) =>
                /\ Len(messages) = 3
                /\ messages[3].artifact.kind = "float"
                /\ messages[3].artifact.den > 0
                /\ messages[3].artifact.num * b = a * messages[3].artifact.den
                /\ Gcd(Abs(messages[3].artifact.num), messages[3].artifact.den) = 1
                /\ messages[3].content =
                        <<"Dividing", a, "by", b, "gives", messages[3].artifact>>
            /\ (Dispatched.name = "divide" /\ b = 0) =>
                /\ node = "error"
                /\ error = "ValueError"
                /\ Len(messages) = 2
            /\ (Dispatched.name # "divide" \/ b # 0) =>
                /\ error = "none"
                /\ messages[3].type = "tool"
                /\ messages[3].name = Dispatched.name

\* a quotient that is not an integer, with a negative divisor, has been
\* computed
C27_Witness ==
    /\ node = "llm"
    /\ Dispatched.name = "divide"
    /\ Dispatched.args = [a |-> 3, b |-> -2]
    /\ messages[3].artifact = [kind |-> "float", num |-> -3, den |-> 2]

(***************************************************************************)
(* The system prompt.                                                      *)
(***************************************************************************)
SystemMessages(msgs) == {i \in 1..Len(msgs) : msgs[i].type = "system"}

\* C28: every model invocation receives the system prompt followed by the
\* whole conversation state of that moment; the system message is never
\* appended to the state, so no state holds a system message when the caller
\* supplied none, and the state always starts with the caller's first message.
C28_SystemPrompt ==
    /\ [](/\ SystemMessages(messages) = {}
          /\ messages[1] = initial[1])
    /\ [][trace'.invoked # trace.invoked =>
            /\ Len(trace'.prompt) = Len(messages) + 1
            /\ trace'.prompt[1] = sys_msg
            /\ \A i \in 1..Len(messages) : trace'.prompt[i + 1] = messages[i]
            /\ Len(messages') = Len(messages) + 1
            /\ messages'[Len(messages')].type = "ai"]_vars

\* the model has been invoked a second time, over a request and its result
C28_Witness ==
    /\ trace.invoked = 2
    /\ Len(trace.prompt) >= 4
    /\ trace.prompt[1] = sys_msg
    /\ trace.prompt[Len(trace.prompt)].type = "tool"
    /\ messages[1].type = "human"

(***************************************************************************)
(* The shape of the log.                                                   *)
(***************************************************************************)
\* C29: in every state, an ai message that requests N > 0 calls is followed,
\* as far as the run has got, by exactly N tool results and then an ai
\* message; a tool result never comes directly after a human message or
\* after an ai message without requests; two ai messages are never adjacent.
C29_ReActShape ==
    \A p \in 1..Len(messages) :
        /\ (messages[p].type = "ai" /\ messages[p].tool_calls # <<>>) =>
                LET N == Len(messages[p].tool_calls)
                    m == Len(messages) - p
                IN  /\ m = 0 \/ m >= N
                    /\ \A j \in 1..N : j <= m =>
                            /\ messages[p + j].type = "tool"
                            /\ messages[p + j].tool_call_id = messages[p].tool_calls[j].id
                    /\ m > N => messages[p + N + 1].type = "ai"
        /\ messages[p].type = "tool" =>
                /\ p > 1
                /\ messages[p - 1].type # "human"
                /\ ~(messages[p - 1].type = "ai" /\ messages[p - 1].tool_calls = <<>>)
        /\ (messages[p].type = "ai" /\ p > 1) => messages[p - 1].type # "ai"

\* a second round of the loop: an answer with one request, its result, an
\* answer with two requests and their two results
C29_Witness ==
    \E p \in 1..Len(messages) :
        /\ Len(messages) = p + 4
        /\ messages[p].type = "ai"
        /\ Len(messages[p].tool_calls) = 1
        /\ messages[p + 1].type = "tool"
        /\ messages[p + 2].type = "ai"
        /\ Len(messages[p + 2].tool_calls) = 2
        /\ messages[p + 3].type = "tool"
        /\ messages[p + 4].type = "tool"

(***************************************************************************)
(* Loading the documents.                                                  *)
(***************************************************************************)
\* the name ends with ".pdf", in whatever case
EndsWithPdf(s) ==
    /\ Len(s) >= 4
    /\ s[Len(s) - 3] = "."
    /\ s[Len(s) - 2] \in {"p", "P"}
    /\ s[Len(s) - 1] \in {"d", "D"}
    /\ s[Len(s)] \in {"f", "F"}

\* the place of a file in the directory listing
ListingIndex(file_name) ==
    CHOOSE j \in 1..Len(loader.file_names) : loader.file_names[j] = file_name

\* C30: whatever the names in the data directory, every page of docs_pages
\* comes from a file whose name ends with ".pdf" case-insensitively; a file
\* with any other name is passed over without an error and contributes no
\* page; the pages are in the order of the directory listing.
C30_PdfOnly ==
    /\ [](/\ \A p \in 1..Len(loader.docs_pages) :
                /\ \E j \in 1..Len(loader.file_names) :
                        loader.file_names[j] = loader.docs_pages[p].source
                /\ EndsWithPdf(loader.docs_pages[p].source)
          /\ \A p \in 1..Len(loader.docs_pages) :
             \A q \in 1..Len(loader.docs_pages) :
                p < q =>
                    \/ ListingIndex(loader.docs_pages[p].source)
                            < ListingIndex(loader.docs_pages[q].source)
                    \/ /\ loader.docs_pages[p].source = loader.docs_pages[q].source
                       /\ loader.docs_pages[p].page < loader.docs_pages[q].page
          /\ loader.error # "none" =>
                /\ loader.i < Len(loader.file_names)
                /\ EndsWithPdf(loader.file_names[loader.i + 1]))
    /\ [][(/\ loader.i < Len(loader.file_names)
           /\ ~EndsWithPdf(loader.file_names[loader.i + 1])
           /\ loader' # loader) =>
                /\ loader'.docs_pages = loader.docs_pages
                /\ loader'.error = "none"
                /\ loader'.i = loader.i + 1]_vars
    /\ [][(/\ loader.i < Len(loader.file_names)
           /\ EndsWithPdf(loader.file_names[loader.i + 1])
           /\ loader' # loader) =>
                /\ Len(loader'.docs_pages) >= Len(loader.docs_pages)
                /\ SubSeq(loader'.docs_pages, 1, Len(loader.docs_pages)) = loader.docs_pages
                /\ \A p \in (Len(loader.docs_pages) + 1)..Len(loader'.docs_pages) :
                        loader'.docs_pages[p].source = loader.file_names[loader.i + 1]]_vars

\* a directory with an upper-case PDF, a text file and a lower-case PDF has
\* been read to the end, and both PDFs have contributed pages
C30_Witness ==
    /\ loader.file_names = << <<"B", ".", "P", "D", "F">>,
                              <<"n", ".", "t", "x", "t">>,
                              <<"a", ".", "p", "d", "f">> >>
    /\ loader.i = 3
    /\ loader.error = "none"
    /\ Len(loader.docs_pages) = 3
    /\ loader.docs_pages[1].source = <<"B", ".", "P", "D", "F">>
    /\ loader.docs_pages[3].source = <<"a", ".", "p", "d", "f">>

====
